---- MODULE Spec2Model ----
(***************************************************************************)
(* Job coordination layer of reelproduction: src/src/productionCoordinator *)
(* .py.  Worker processes pull job messages from a Pub/Sub subscription    *)
(* (at-least-once delivery), filter them, take a lock object in GCS keyed  *)
(* by production id, run productionJob.run_job, publish a completion       *)
(* report, acknowledge the message and release the lock.                   *)
(***************************************************************************)
EXTENDS Integers, Sequences, FiniteSets, TLC

(***************************************************************************)
(* Bounds of the model                                                     *)
(***************************************************************************)
\* total number of deliveries the queue makes (to any worker)
MaxDeliveries == 2

\* the worker processes
Workers == {"w1", "w2"}

\* values the wall clock takes, in ms (time.time() * 1000), in this order;
\* the messages carry timestamp 0, so the first is an age equal to the budget
ClockValues == <<1200000, 1200001>>

(***************************************************************************)
(* Program constants                                                       *)
(***************************************************************************)
\* safe_process_callback: "if msg_age_ms > 1200000"
StaleBudgetMs == 1200000

\* report_completion(..., error_msg=None)
NullError == "null"

(***************************************************************************)
(* Python dict access: d.get(k, default) and d[k]                          *)
(***************************************************************************)
Get(d, k, default) == IF k \in DOMAIN d THEN d[k] ELSE default

(***************************************************************************)
(* Process environment of each worker                                      *)
(***************************************************************************)
\* os.environ.get("WORKER_ID"): "" stands for unset
WorkerIdEnv == [w \in Workers |-> IF w = "w1" THEN "vm1" ELSE ""]

\* what the metadata server answers for the instance name; the query may
\* also fail, and get_gcp_instance_name then returns "unknown"
InstanceName == [w \in Workers |-> IF w = "w1" THEN "vm1" ELSE "vm2"]

\* get_gcp_instance_name(): the instance name, or "unknown" on any failure
get_gcp_instance_name(w) == {InstanceName[w], "unknown"}

\* --subscription_id of each worker, as the pieces of its name
SubscriptionId ==
  [w \in Workers |-> IF w = "w1" THEN <<"sub-collab-", "w1">> ELSE <<"render-jobs">>]

\* values of os.environ WORKER_MODE ("" stands for unset)
WorkerModeEnvs == {"", "single_task", "loop"}

\* the default taken to be loop mode
worker_mode_default_loop(env) == IF env = "" THEN "loop" ELSE env

\* os.environ.get("WORKER_MODE", "single_task") in process_message
worker_mode(env) == IF env = "" THEN "single_task" ELSE env

(***************************************************************************)
(* Messages the queue may deliver.  json is the shape of the body:         *)
(* "invalid" (json.loads raises), "non_object" (valid JSON, not a dict),   *)
(* "object" (a dict, given in body).  target is the target_vm attribute,   *)
(* "" when absent.                                                         *)
(***************************************************************************)
Num(v) == [type |-> "number", val |-> v]
Str == [type |-> "string", val |-> 0]

Descriptor(pid, bucket) ==
  [productionId |-> pid, bucket |-> bucket, outputs |-> <<"out.mp4">>]

WithTs(d, ts) ==
  [k \in DOMAIN d \cup {"timestamp"} |-> IF k = "timestamp" THEN ts ELSE d[k]]

Msg(json, body, target) == [json |-> json, body |-> body, target |-> target]

Messages ==
  { Msg("object", WithTs(Descriptor("P1", "b1"), Num(0)), ""),
    Msg("object", WithTs(Descriptor("P1", "b1"), Num(0)), "vm2"),
    Msg("object", Descriptor("P1", "b1"), ""),
    Msg("object", WithTs(Descriptor("P1", "b2"), Num(0)), ""),
    Msg("object", WithTs(Descriptor("P2", "b1"), Num(0)), ""),
    Msg("object", WithTs(Descriptor("P1", "b1"), Str), "vm2"),
    Msg("object", [bucket |-> "b1", outputs |-> <<"out.mp4">>], ""),
    Msg("object", [productionId |-> "P1", outputs |-> <<"out.mp4">>], ""),
    Msg("object", [productionId |-> "P1", bucket |-> "b1", outputs |-> <<>>], ""),
    Msg("object", <<>>, ""),
    Msg("invalid", <<>>, "") }

NoMsg == Msg("none", <<>>, "")

\* what productionJob.run_job returns as metadata (get_video_metadata)
Metadatas ==
  { [duration |-> 125, orientation |-> "portrait"],
    [duration |-> 0, orientation |-> "landscape"] }

\* str(e) of the exceptions run_job raises
JobErrors == {"encoder crashed"}

\* str(e) of the KeyError raised by payload["productionId"] / payload["bucket"]
KeyErrorOf(k) == IF k = "productionId" THEN "'productionId'" ELSE "'bucket'"

\* str(e) of an exception of blob.upload_from_string other than PreconditionFailed
UploadErrors == {"503 backend error"}

\* --project_id of the workers that have one
ProjectId == "reel-project"

\* what argparse may hand to listen_for_work for w: both identifiers, or one
\* of them missing (None or empty, here "" and <<>>)
ArgsOf(w) ==
  { [project_id |-> ProjectId, subscription_id |-> SubscriptionId[w]],
    [project_id |-> "", subscription_id |-> SubscriptionId[w]],
    [project_id |-> ProjectId, subscription_id |-> <<>>] }

(***************************************************************************)
(* State                                                                   *)
(***************************************************************************)
VARIABLES
  tail,         \* tail[w]: the finally block an earlier callback of w still has to run
  args,         \* args[w]: the parsed command line of w (with the env defaults)
  modeEnv,      \* modeEnv[w]: WORKER_MODE in the environment of worker w
  pc,           \* pc[w]: where the callback thread of w stands
  cur,          \* cur[w]: the message of the current (or last) callback
  lockPath,     \* lockPath[w]: local lock_path of process_message
  calls,        \* calls[w]: what the current (or last) callback has done
  reports,      \* reports[w]: publications attempted by that callback
  exitCode,     \* exitCode[w]: exit status, -1 while the process runs
  cancelled,    \* cancelled[w]: streaming_pull_future.cancel() was called
  subDeleted,   \* subDeleted[w]: the subscription of w was deleted
  store,        \* GCS: the lock objects that exist, as <<bucket, path>>
  lockCreator,  \* lockCreator[k]: the worker whose callback created object k last
  executed,     \* the locks under which run_job has been called
  tick,         \* index of the wall clock in ClockValues
  deliveries,   \* deliveries[w]: number of messages handed to w so far
  exc,          \* exc[w]: str(e) of the exception caught at line 211, or ""
  metadata      \* metadata[w]: what run_job returned to the callback, or <<>>

vars == <<tail, args, modeEnv, pc, cur, lockPath, calls, reports, exitCode,
          cancelled, subDeleted, store, lockCreator, executed, tick,
          deliveries, exc, metadata>>

now == ClockValues[tick]

RECURSIVE Total(_, _)
Total(f, S) ==
  IF S = {} THEN 0
  ELSE LET x == CHOOSE y \in S : TRUE IN f[x] + Total(f, S \ {x})

\* number of deliveries the queue has made
delivered == Total(deliveries, Workers)

\* one lock path for all productions
LockPathShared(production_id) == <<"locks/", "production", ".lock">>

\* acquire_gcs_lock: lock_path = f"locks/{production_id}.lock"
LockPathOf(production_id) == <<"locks/", production_id, ".lock">>

NoPath == <<>>

\* the object a lock lives in: bucket.blob(lock_path)
Blob(bucket_name, lock_path) == <<bucket_name, lock_path>>

Buckets == {"b1", "b2"}
ProductionIds == {"P1", "P2"}
Keys == {Blob(b, LockPathOf(p)) : b \in Buckets, p \in ProductionIds}

\* no finally block of an earlier callback is pending
NoTail == [bucket_name |-> "", lock_path |-> NoPath, pending |-> FALSE]

Init ==
  /\ tail = [w \in Workers |-> NoTail]
  /\ args \in {a \in [Workers -> UNION {ArgsOf(w) : w \in Workers}] :
                 \A w \in Workers : a[w] \in ArgsOf(w)}
  /\ modeEnv \in [Workers -> WorkerModeEnvs]
  /\ pc = [w \in Workers |-> "starting"]
  /\ cur = [w \in Workers |-> NoMsg]
  /\ lockPath = [w \in Workers |-> NoPath]
  /\ calls = [w \in Workers |-> <<>>]
  /\ reports = [w \in Workers |-> <<>>]
  /\ exitCode = [w \in Workers |-> -1]
  /\ cancelled = [w \in Workers |-> FALSE]
  /\ subDeleted = [w \in Workers |-> FALSE]
  /\ store = {}
  /\ lockCreator = [k \in Keys |-> ""]
  /\ executed = {}
  /\ tick = 1
  /\ deliveries = [w \in Workers |-> 0]
  /\ exc = [w \in Workers |-> ""]
  /\ metadata = [w \in Workers |-> <<>>]

(***************************************************************************)
(* Pure parts of the handler                                               *)
(***************************************************************************)
\* a WORKER_ID of "unknown" taken for a configured identity
ResolveIdentityNoSentinel(env, instance_name) ==
  IF env = "" THEN instance_name ELSE env

\* process_message 119-121: WORKER_ID, else the metadata server's answer
ResolveIdentity(env, instance_name) ==
  IF env = "" \/ env = "unknown" THEN instance_name ELSE env

\* the comparison inverted
TargetMismatchInverted(target_vm, my_worker_id) ==
  target_vm # "" /\ target_vm = my_worker_id

\* process_message 128: "if target_vm and target_vm != my_worker_id"
TargetMismatch(target_vm, my_worker_id) ==
  target_vm # "" /\ target_vm # my_worker_id

\* safe_process_callback 255-261 raises: json.loads fails, data has no
\* .get, or the subtraction of a non-number raises TypeError
WrapperRaises(m) ==
  \/ m.json # "object"
  \/ /\ "timestamp" \in DOMAIN m.body
     /\ m.body.timestamp.type # "number"

\* safe_process_callback 259-265
MsgAgeMs(data, current_time_ms) ==
  current_time_ms - Get(data, "timestamp", Num(current_time_ms)).val

\* the budget taken in seconds against an age in milliseconds
IsStaleWrongUnit(data, current_time_ms) ==
  MsgAgeMs(data, current_time_ms) > StaleBudgetMs * 1000

\* stale already at an age equal to the budget
IsStaleAtBudget(data, current_time_ms) ==
  MsgAgeMs(data, current_time_ms) >= StaleBudgetMs

IsStale(data, current_time_ms) == MsgAgeMs(data, current_time_ms) > StaleBudgetMs

\* every subscription taken for a temporary one
IsTemporaryAlways(subscription_id) == TRUE

\* cleanup_subscription 101: "sub-collab-" in subscription_id
IsTemporary(subscription_id) ==
  \E i \in 1..Len(subscription_id) : subscription_id[i] = "sub-collab-"

\* a failed publication sent a second time
report_completion_retry(status, payload, error_msg, published) ==
  LET r == [ data |-> [ productionId |-> Get(payload, "productionId", "UNKNOWN"),
                        status |-> status,
                        outputKey |-> Get(payload, "outputs", <<"">>)[1],
                        error |-> error_msg,
                        duration |-> Get(payload, "duration", 0),
                        orientation |-> Get(payload, "orientation", "UNKNOWN") ],
             published |-> published ]
  IN IF Get(payload, "outputs", <<"">>) = <<>> THEN <<>>
     ELSE IF published THEN <<r>> ELSE <<r, r>>

\* report_completion: the publications it attempts (none when
\* payload.get('outputs', [""])[0] raises IndexError, which is swallowed)
report_completion(status, payload, error_msg, published) ==
  IF Get(payload, "outputs", <<"">>) = <<>>
  THEN <<>>
  ELSE << [ data |-> [ productionId |-> Get(payload, "productionId", "UNKNOWN"),
                       status |-> status,
                       outputKey |-> Get(payload, "outputs", <<"">>)[1],
                       error |-> error_msg,
                       duration |-> Get(payload, "duration", 0),
                       orientation |-> Get(payload, "orientation", "UNKNOWN") ],
            published |-> published ] >>

\* the metadata stored under payload["metadata"], where report_completion
\* does not look
MergeMetadataNested(payload, md) ==
  [k \in DOMAIN payload \cup {"metadata"} |->
     IF k = "metadata" THEN md ELSE payload[k]]

\* process_message 199-200: payload["duration"] = ..., payload["orientation"] = ...
MergeMetadata(payload, md) ==
  [k \in DOMAIN payload \cup {"duration", "orientation"} |->
     IF k = "duration" THEN Get(md, "duration", 0)
     ELSE IF k = "orientation" THEN Get(md, "orientation", "unknown")
     ELSE payload[k]]

\* cleanup_subscription: deletes the subscription if its name is temporary
cleanup_subscription(w, sd) ==
  IF IsTemporary(args[w].subscription_id) THEN [sd EXCEPT ![w] = TRUE] ELSE sd

(***************************************************************************)
(* The lock in the object store                                            *)
(***************************************************************************)
\* an upload without precondition
GenerationMatchAny(objects, blob) == TRUE

\* blob.upload_from_string(data="locked", if_generation_match=0): the write
\* is accepted only if no object exists under the name
GenerationMatch0(objects, blob) == blob \notin objects

\* success reported without the object having been written
acquire_gcs_lock_no_upload(objects, bucket_name, production_id) ==
  LET lock_path == LockPathOf(production_id)
      blob == Blob(bucket_name, lock_path)
  IN IF GenerationMatch0(objects, blob)
     THEN [ok |-> TRUE, objects |-> objects, lock_path |-> lock_path]
     ELSE [ok |-> FALSE, objects |-> objects, lock_path |-> NoPath]

\* an existence check that looks in the bucket root instead of locks/
acquire_gcs_lock_wrong_check(objects, bucket_name, production_id) ==
  LET lock_path == LockPathOf(production_id)
      blob == Blob(bucket_name, lock_path)
  IN IF GenerationMatch0(objects, Blob(bucket_name, <<production_id>>))
     THEN [ok |-> TRUE, objects |-> objects \cup {blob}, lock_path |-> lock_path]
     ELSE [ok |-> FALSE, objects |-> objects, lock_path |-> NoPath]

\* lock_path handed to the caller also when the upload is refused
acquire_gcs_lock_path_first(objects, bucket_name, production_id) ==
  LET lock_path == LockPathOf(production_id)
      blob == Blob(bucket_name, lock_path)
  IN IF GenerationMatch0(objects, blob)
     THEN [ok |-> TRUE, objects |-> objects \cup {blob}, lock_path |-> lock_path]
     ELSE [ok |-> FALSE, objects |-> objects, lock_path |-> lock_path]

\* acquire_gcs_lock: raises PreconditionFailed (ok = FALSE; the caller's
\* lock_path stays None) or creates the object and returns lock_path
acquire_gcs_lock(objects, bucket_name, production_id) ==
  LET lock_path == LockPathOf(production_id)
      blob == Blob(bucket_name, lock_path)
  IN IF GenerationMatch0(objects, blob)
     THEN [ok |-> TRUE, objects |-> objects \cup {blob}, lock_path |-> lock_path]
     ELSE [ok |-> FALSE, objects |-> objects, lock_path |-> NoPath]

\* release_gcs_lock when bucket.blob(lock_path).delete() succeeds
release_gcs_lock(objects, bucket_name, lock_path) ==
  objects \ {Blob(bucket_name, lock_path)}

\* the lock object of the job in payload
BlobOfPayload(payload) ==
  Blob(payload.bucket, LockPathOf(payload.productionId))

(***************************************************************************)
(* process_message, piece by piece                                         *)
(***************************************************************************)
\* a return of the callback on which the process goes on listening
Returns(w, done) ==
  /\ calls' = [calls EXCEPT ![w] = done]
  /\ reports' = [reports EXCEPT ![w] = <<>>]
  /\ exc' = [exc EXCEPT ![w] = ""]
  /\ pc' = [pc EXCEPT ![w] = "listening"]
  /\ UNCHANGED <<exitCode, subDeleted>>

\* the except block with the failed message handed back to the queue
ExceptBlockNack(w, done, payload, e) ==
  \E published \in BOOLEAN :
    LET truthy == DOMAIN payload # {}
        single == worker_mode(modeEnv[w]) = "single_task"
    IN /\ exc' = [exc EXCEPT ![w] = e]
       /\ reports' = [reports EXCEPT ![w] =
                        IF truthy
                        THEN report_completion("FAILED", payload, e, published)
                        ELSE <<>>]
       /\ calls' = [calls EXCEPT ![w] =
                      done \o (IF truthy THEN <<"report">> ELSE <<>>)
                           \o <<"nack", "cleanup">>
                           \o (IF single THEN <<"exit">> ELSE <<>>)]
       /\ subDeleted' = cleanup_subscription(w, subDeleted)
       /\ pc' = [pc EXCEPT ![w] = IF single THEN "exited" ELSE "finally"]
       /\ exitCode' = [exitCode EXCEPT ![w] = IF single THEN 1 ELSE @]

\* lines 211-233: the except block, entered with exception message e after
\* the callback has done `done`
ExceptBlock(w, done, payload, e) ==
  \E published \in BOOLEAN :
    LET truthy == DOMAIN payload # {}
        single == worker_mode(modeEnv[w]) = "single_task"
    IN /\ exc' = [exc EXCEPT ![w] = e]
       /\ reports' = [reports EXCEPT ![w] =
                        IF truthy
                        THEN report_completion("FAILED", payload, e, published)
                        ELSE <<>>]
       /\ calls' = [calls EXCEPT ![w] =
                      done \o (IF truthy THEN <<"report">> ELSE <<>>)
                           \o <<"ack", "cleanup">>
                           \o (IF single THEN <<"exit">> ELSE <<>>)]
       /\ subDeleted' = cleanup_subscription(w, subDeleted)
       /\ pc' = [pc EXCEPT ![w] = IF single THEN "exited" ELSE "finally"]
       /\ exitCode' = [exitCode EXCEPT ![w] = IF single THEN 1 ELSE @]

\* lines 119-151: identity, targeted delivery check, payload parsing
ProcessMessageHead(w, m) ==
  \E instance_name \in get_gcp_instance_name(w) :
    LET my_worker_id == ResolveIdentity(WorkerIdEnv[w], instance_name)
        payload == m.body
    IN IF TargetMismatch(m.target, my_worker_id)
       THEN Returns(w, <<"nack">>)
       ELSE IF "productionId" \notin DOMAIN payload
       THEN ExceptBlock(w, <<>>, payload, KeyErrorOf("productionId"))
       ELSE IF "bucket" \notin DOMAIN payload
       THEN ExceptBlock(w, <<>>, payload, KeyErrorOf("bucket"))
       ELSE /\ calls' = [calls EXCEPT ![w] = <<>>]
            /\ reports' = [reports EXCEPT ![w] = <<>>]
            /\ exc' = [exc EXCEPT ![w] = ""]
            /\ pc' = [pc EXCEPT ![w] = "acquire"]
            /\ UNCHANGED <<exitCode, subDeleted>>

(***************************************************************************)
(* Actions                                                                 *)
(***************************************************************************)
\* safe_process_callback is called with m and runs up to the lock
\* acquisition
HandMessage(w, m) ==
  /\ deliveries' = [deliveries EXCEPT ![w] = @ + 1]
  /\ cur' = [cur EXCEPT ![w] = m]
  /\ lockPath' = [lockPath EXCEPT ![w] = NoPath]
  /\ metadata' = [metadata EXCEPT ![w] = <<>>]
  /\ IF WrapperRaises(m)
     THEN Returns(w, <<"nack">>)
     ELSE IF IsStale(m.body, now)
     THEN Returns(w, <<"ack">>)
     ELSE ProcessMessageHead(w, m)
  /\ UNCHANGED <<args, modeEnv, cancelled, store, lockCreator, executed, tick>>

\* The queue delivers m to w, whose earlier callbacks have all returned
SafeProcessCallback(w, m) ==
  /\ pc[w] = "listening"
  /\ ~cancelled[w]
  /\ ~subDeleted[w]
  /\ delivered < MaxDeliveries
  /\ UNCHANGED tail
  /\ HandMessage(w, m)

\* lines 156-192: the acquire succeeds and run_job is entered
AcquireLock(w) ==
  /\ pc[w] = "acquire"
  /\ LET payload == cur[w].body
         r == acquire_gcs_lock(store, payload.bucket, payload.productionId)
     IN /\ r.ok
        /\ store' = r.objects
        /\ lockCreator' = [lockCreator EXCEPT ![BlobOfPayload(payload)] = w]
        /\ lockPath' = [lockPath EXCEPT ![w] = r.lock_path]
        /\ executed' = executed \cup {BlobOfPayload(payload)}
  /\ calls' = [calls EXCEPT ![w] = @ \o <<"acquire", "run_job">>]
  /\ pc' = [pc EXCEPT ![w] = "run_job"]
  /\ UNCHANGED <<tail, args, modeEnv, cur, reports, exitCode, cancelled, subDeleted,
                 tick, deliveries, exc, metadata>>

\* contention handled as a failure of the job
LockContentionFails(w) ==
  /\ pc[w] = "acquire"
  /\ LET payload == cur[w].body
         r == acquire_gcs_lock(store, payload.bucket, payload.productionId)
     IN /\ ~r.ok
        /\ store' = r.objects
        /\ lockPath' = [lockPath EXCEPT ![w] = r.lock_path]
        /\ ExceptBlock(w, calls[w] \o <<"contention">>, payload, "412 Precondition Failed")
  /\ UNCHANGED <<tail, args, modeEnv, cur, cancelled, lockCreator, executed, tick,
                 deliveries, metadata>>

\* lines 158-161: PreconditionFailed; ack and return through finally
LockContention(w) ==
  /\ pc[w] = "acquire"
  /\ LET payload == cur[w].body
         r == acquire_gcs_lock(store, payload.bucket, payload.productionId)
     IN /\ ~r.ok
        /\ store' = r.objects
        /\ lockPath' = [lockPath EXCEPT ![w] = r.lock_path]
  /\ calls' = [calls EXCEPT ![w] = @ \o <<"contention", "ack">>]
  /\ pc' = [pc EXCEPT ![w] = "finally"]
  /\ UNCHANGED <<tail, args, modeEnv, cur, reports, exitCode, cancelled, subDeleted,
                 lockCreator, executed, tick, deliveries, exc, metadata>>

\* upload_from_string raises something else than PreconditionFailed
AcquireError(w) ==
  /\ pc[w] = "acquire"
  /\ \E e \in UploadErrors :
       ExceptBlock(w, calls[w] \o <<"acquire_error">>, cur[w].body, e)
  /\ UNCHANGED <<tail, args, modeEnv, cur, lockPath, cancelled, store, lockCreator,
                 executed, tick, deliveries, metadata>>

\* lines 194-209: run_job returned (output_path, metadata)
RunJobReturns(w) ==
  /\ pc[w] = "run_job"
  /\ \E md \in Metadatas, published \in BOOLEAN :
       LET payload == MergeMetadata(cur[w].body, md)
           single == worker_mode(modeEnv[w]) = "single_task"
       IN /\ metadata' = [metadata EXCEPT ![w] = md]
          /\ reports' = [reports EXCEPT ![w] =
                           report_completion("COMPLETED", payload, NullError, published)]
          /\ calls' = [calls EXCEPT ![w] =
                         @ \o <<"returned", "report", "ack", "cleanup">>
                           \o (IF single THEN <<"exit">> ELSE <<>>)]
          /\ subDeleted' = cleanup_subscription(w, subDeleted)
          /\ pc' = [pc EXCEPT ![w] = IF single THEN "exited" ELSE "finally"]
          /\ exitCode' = [exitCode EXCEPT ![w] = IF single THEN 0 ELSE @]
  /\ UNCHANGED <<tail, args, modeEnv, cur, lockPath, cancelled, store, lockCreator,
                 executed, tick, deliveries, exc>>

\* run_job raised an exception
RunJobRaises(w) ==
  /\ pc[w] = "run_job"
  /\ \E e \in JobErrors :
       ExceptBlock(w, calls[w] \o <<"raised">>, cur[w].body, e)
  /\ UNCHANGED <<tail, args, modeEnv, cur, lockPath, cancelled, store, lockCreator,
                 executed, tick, deliveries, metadata>>

\* lines 235-240: finally; the delete may fail, which is only logged
Finally(w) ==
  /\ pc[w] = "finally"
  /\ LET bucket_name == Get(cur[w].body, "bucket", "")
     IN IF lockPath[w] # NoPath /\ bucket_name # ""
        THEN \/ /\ store' = release_gcs_lock(store, bucket_name, lockPath[w])
                /\ calls' = [calls EXCEPT ![w] = @ \o <<"release">>]
             \/ /\ calls' = [calls EXCEPT ![w] = @ \o <<"release_failed">>]
                /\ UNCHANGED store
        ELSE UNCHANGED <<store, calls>>
  /\ pc' = [pc EXCEPT ![w] = "listening"]
  /\ UNCHANGED <<tail, args, modeEnv, cur, lockPath, reports, exitCode, cancelled,
                 subDeleted, lockCreator, executed, tick, deliveries, exc,
                 metadata>>

\* only the project identifier checked
ArgsMissingProjectOnly(a) == a.project_id = ""

\* listen_for_work 293: "if not args.project_id or not args.subscription_id"
ArgsMissing(a) == a.project_id = "" \/ a.subscription_id = <<>>

\* listen_for_work 285-312: the arguments are checked; sys.exit(1) if one
\* of the identifiers is missing, else the subscription is opened
ListenForWork(w) ==
  /\ pc[w] = "starting"
  /\ IF ArgsMissing(args[w])
     THEN /\ pc' = [pc EXCEPT ![w] = "exited"]
          /\ exitCode' = [exitCode EXCEPT ![w] = 1]
     ELSE /\ pc' = [pc EXCEPT ![w] = "listening"]
          /\ UNCHANGED exitCode
  /\ UNCHANGED <<tail, args, modeEnv, cur, lockPath, calls, reports, cancelled,
                 subDeleted, store, lockCreator, executed, tick, deliveries,
                 exc, metadata>>

\* a timeout after which a loop-mode process does restart its loop
TimeoutRestartsLoop(w) ==
  /\ pc[w] # "starting"
  /\ exitCode[w] = -1
  /\ ~cancelled[w]
  /\ IF modeEnv[w] = "single_task"
     THEN /\ cancelled' = [cancelled EXCEPT ![w] = TRUE]
          /\ subDeleted' = cleanup_subscription(w, subDeleted)
          /\ pc' = [pc EXCEPT ![w] = "exited"]
          /\ exitCode' = [exitCode EXCEPT ![w] = 0]
     ELSE UNCHANGED <<cancelled, subDeleted, pc, exitCode>>
  /\ UNCHANGED <<tail, args, modeEnv, cur, lockPath, calls, reports, store,
                 lockCreator, executed, tick, deliveries, exc, metadata>>

\* listen_for_work 314-326: result(timeout) raises in the main thread
Timeout(w) ==
  /\ pc[w] # "starting"
  /\ exitCode[w] = -1
  /\ ~cancelled[w]
  /\ cancelled' = [cancelled EXCEPT ![w] = TRUE]
  /\ IF modeEnv[w] = "single_task"
     THEN /\ subDeleted' = cleanup_subscription(w, subDeleted)
          /\ pc' = [pc EXCEPT ![w] = "exited"]
          /\ exitCode' = [exitCode EXCEPT ![w] = 0]
     ELSE UNCHANGED <<subDeleted, pc, exitCode>>
  /\ UNCHANGED <<tail, args, modeEnv, cur, lockPath, calls, reports, store, lockCreator,
                 executed, tick, deliveries, exc, metadata>>

\* listen_for_work returned and no callback is running: the process ends
MainReturns(w) ==
  /\ cancelled[w]
  /\ pc[w] = "listening"
  /\ ~tail[w].pending
  /\ pc' = [pc EXCEPT ![w] = "exited"]
  /\ exitCode' = [exitCode EXCEPT ![w] = 0]
  /\ UNCHANGED <<tail, args, modeEnv, cur, lockPath, calls, reports, cancelled, subDeleted,
                 store, lockCreator, executed, tick, deliveries, exc, metadata>>

\* time passes
Tick ==
  /\ tick < Len(ClockValues)
  /\ tick' = tick + 1
  /\ UNCHANGED <<tail, args, modeEnv, pc, cur, lockPath, calls, reports, exitCode,
                 cancelled, subDeleted, store, lockCreator, executed,
                 deliveries, exc, metadata>>

(***************************************************************************)
(* Delivery under FlowControl(max_messages=1) as the client library counts *)
(* it: a message is outstanding until it is acknowledged or negatively     *)
(* acknowledged, and the next one is handed to a callback thread as soon   *)
(* as none is outstanding, also while the earlier callback is still        *)
(* running what follows its ack.                                           *)
(***************************************************************************)
\* a limit of more than one outstanding message
FlowControlTwo(w) ==
  pc[w] \in {"listening", "run_job", "finally"} /\ ~tail[w].pending

\* listen_for_work 300: no message of w is outstanding (one earlier
\* callback at most is followed past its ack)
FlowControlAllows(w) ==
  pc[w] \in {"listening", "finally"} /\ ~tail[w].pending

\* m is handed to a second callback thread of w while the callback of the
\* acknowledged message has its finally block still to run
NextCallback(w, m) ==
  /\ FlowControlAllows(w)
  /\ pc[w] # "listening"
  /\ ~cancelled[w]
  /\ ~subDeleted[w]
  /\ delivered < MaxDeliveries
  /\ tail' = [tail EXCEPT ![w] =
                [bucket_name |-> Get(cur[w].body, "bucket", ""),
                 lock_path |-> lockPath[w],
                 pending |-> TRUE]]
  /\ HandMessage(w, m)

\* lines 235-240 in the earlier callback of w
FinallyOfEarlier(w) ==
  /\ tail[w].pending
  /\ pc[w] # "exited"
  /\ tail' = [tail EXCEPT ![w] = NoTail]
  /\ IF tail[w].lock_path # NoPath /\ tail[w].bucket_name # ""
     THEN \/ store' = release_gcs_lock(store, tail[w].bucket_name, tail[w].lock_path)
          \/ UNCHANGED store
     ELSE UNCHANGED store
  /\ UNCHANGED <<args, modeEnv, pc, cur, lockPath, calls, reports, exitCode,
                 cancelled, subDeleted, lockCreator, executed, tick,
                 deliveries, exc, metadata>>

Next ==
  \/ \E w \in Workers : ListenForWork(w)
  \/ \E w \in Workers, m \in Messages : SafeProcessCallback(w, m)
  \/ \E w \in Workers : AcquireLock(w)
  \/ \E w \in Workers : LockContention(w)
  \/ \E w \in Workers : AcquireError(w)
  \/ \E w \in Workers : RunJobReturns(w)
  \/ \E w \in Workers : RunJobRaises(w)
  \/ \E w \in Workers : Finally(w)
  \/ \E w \in Workers : Timeout(w)
  \/ \E w \in Workers : MainReturns(w)
  \/ Tick

Spec == Init /\ [][Next]_vars

\* Every call the process waits for comes back: the start-up, the upload
\* of the lock object, run_job (returning or raising), the finally block,
\* the timed wait of result(timeout=...) and the return of the main thread
Fairness ==
  \A w \in Workers :
    /\ WF_vars(ListenForWork(w))
    /\ WF_vars(AcquireLock(w) \/ LockContention(w) \/ AcquireError(w))
    /\ WF_vars(RunJobReturns(w) \/ RunJobRaises(w))
    /\ WF_vars(Finally(w))
    /\ WF_vars(Timeout(w))
    /\ WF_vars(MainReturns(w))

\* processes end one by one, whatever the others do: one of the two is
\* started without an identifier, the other listens
LiveInit ==
  /\ Init
  /\ \E w \in Workers : ArgsMissing(args[w])

LiveSpec == LiveInit /\ [][Next]_vars /\ Fairness

\* one process under observation: the other worker is started without a
\* subscription identifier and never listens
FlowInit ==
  /\ Init
  /\ args["w1"].subscription_id = <<>>
  /\ ~ArgsMissing(args["w2"])

FlowNext ==
  \/ Next
  \/ \E w \in Workers, m \in Messages : NextCallback(w, m)
  \/ \E w \in Workers : FinallyOfEarlier(w)

FlowSpec == FlowInit /\ [][FlowNext]_vars

TypeOK ==
  /\ pc \in [Workers -> {"starting", "listening", "acquire", "run_job", "finally", "exited"}]
  /\ store \subseteq Keys
  /\ delivered \in 0..MaxDeliveries

(***************************************************************************)
(* Vocabulary of the properties                                            *)
(***************************************************************************)
Has(seq, x) == \E i \in 1..Len(seq) : seq[i] = x

IsAckOrNack(c) == c \in {"ack", "nack"}

\* the acknowledgements the current (or last) callback of w has sent
Acks(w) == SelectSeq(calls[w], IsAckOrNack)

\* the callback of w is not running: it returned or the process is gone
Ended(w) == deliveries[w] > 0 /\ pc[w] \in {"listening", "exited"}

\* the lock object of the job w handles (or handled last)
BlobOf(w) == BlobOfPayload(cur[w].body)

\* a Job Descriptor as the data model has it: production id, bucket and at
\* least one output
IsDescriptor(body) ==
  /\ {"productionId", "bucket", "outputs"} \subseteq DOMAIN body
  /\ body.outputs # <<>>

\* the identities process_message may resolve for w
IdentitiesOf(w) ==
  {ResolveIdentity(WorkerIdEnv[w], n) : n \in get_gcp_instance_name(w)}

\* m is addressed to another worker than w, whatever the resolution yields
AddressedElsewhere(w, m) ==
  m.target # "" /\ \A id \in IdentitiesOf(w) : m.target # id

\* m passes the targeted delivery check of w, whatever the resolution yields
PassesTargetFilter(w, m) ==
  m.target = "" \/ \A id \in IdentitiesOf(w) : m.target = id

\* this step hands a message to w
Delivery(w) == deliveries'[w] = deliveries[w] + 1

\* this step is w's attempt to acquire the lock, answered by the store
AcquireAttempt(w) ==
  /\ pc[w] = "acquire"
  /\ pc'[w] \in {"run_job", "finally"}
  /\ ~Has(calls'[w], "acquire_error")

\* this step is w's call of run_job
EntersRunJob(w) == pc[w] = "acquire" /\ pc'[w] = "run_job"

(***************************************************************************)
(* C1: after the handling of a message for which this process created the  *)
(* lock has ended (success or failure path, single_task or loop mode, the  *)
(* delete itself not failing), no lock object of that production remains.  *)
(***************************************************************************)
C1_NoLockLeftBehind ==
  \A w \in Workers :
    ( /\ Ended(w)
      /\ IsDescriptor(cur[w].body)
      /\ Has(calls[w], "acquire")
      /\ Has(calls[w], "ack")
      /\ ~Has(calls[w], "release_failed") )
    => ~(BlobOf(w) \in store /\ lockCreator[BlobOf(w)] = w)

(***************************************************************************)
(* C2: at most one worker is inside productionJob.run_job for a given      *)
(* bucket and production id.                                               *)
(***************************************************************************)
C2_OneExecutorPerProduction ==
  \A w1 \in Workers : \A w2 \in Workers \ {w1} :
    ~( /\ pc[w1] = "run_job"
       /\ pc[w2] = "run_job"
       /\ BlobOf(w1) = BlobOf(w2) )

\* one worker is inside run_job while the other, given the same job, has
\* skipped it and returned
C2_Witness ==
  \E w1 \in Workers : \E w2 \in Workers \ {w1} :
    /\ pc[w1] = "run_job"
    /\ pc[w2] = "listening"
    /\ Has(calls[w2], "contention")
    /\ BlobOf(w1) = BlobOf(w2)

(***************************************************************************)
(* C3: of two concurrent acquire attempts for the same bucket and          *)
(* production id with no lock object present, the one the store serves     *)
(* first succeeds and creates the object, and from then on the attempt of  *)
(* the other is refused with PreconditionFailed: exactly one succeeds.     *)
(***************************************************************************)
C3_OneAcquireWins ==
  [][ \A w1 \in Workers : \A w2 \in Workers \ {w1} :
        ( /\ pc[w1] = "acquire"
          /\ pc[w2] = "acquire"
          /\ BlobOf(w1) = BlobOf(w2)
          /\ BlobOf(w1) \notin store
          /\ AcquireAttempt(w1) )
        => /\ Has(calls'[w1], "acquire")
           /\ BlobOf(w1) \in store'
           /\ pc'[w2] = "acquire"
           /\ ~acquire_gcs_lock(store', cur[w2].body.bucket,
                                cur[w2].body.productionId).ok
    ]_vars

\* both attempted: one is in run_job, the other was refused
C3_Witness ==
  \E w1 \in Workers : \E w2 \in Workers \ {w1} :
    /\ pc[w1] = "run_job"
    /\ lockCreator[BlobOf(w1)] = w1
    /\ pc[w2] = "finally"
    /\ calls[w2] = <<"contention", "ack">>
    /\ BlobOf(w1) = BlobOf(w2)

(***************************************************************************)
(* C4: under at-least-once delivery run_job is called at most once for a   *)
(* job, also when its message is delivered again after an earlier          *)
(* handling of it has finished.                                            *)
(***************************************************************************)
C4_AtMostOnce ==
  [][ \A w \in Workers : EntersRunJob(w) => BlobOf(w) \notin executed ]_vars

\* C4 as amended: run_job is entered only by a callback that has just
\* created the lock object of the job, so never while the lock object of
\* an earlier handling exists
C4_RunOnlyUnderFreshLock ==
  [][ \A w \in Workers :
        EntersRunJob(w) => /\ BlobOf(w) \notin store
                           /\ BlobOf(w) \in store'
                           /\ lockCreator'[BlobOf(w)] = w
    ]_vars

\* a job that one worker ran and released is run again by the other
C4_Witness ==
  \E w1 \in Workers : \E w2 \in Workers \ {w1} :
    /\ pc[w1] = "listening"
    /\ Has(calls[w1], "run_job")
    /\ Has(calls[w1], "release")
    /\ pc[w2] = "run_job"
    /\ BlobOf(w1) = BlobOf(w2)

(***************************************************************************)
(* C5: a message whose target_vm differs from the worker identity is       *)
(* negatively acknowledged, whatever its body and timestamp; no lock is    *)
(* acquired and run_job is not called.                                     *)
(***************************************************************************)
C5_MismatchIsNacked ==
  \A w \in Workers :
    (Ended(w) /\ AddressedElsewhere(w, cur[w])) => calls[w] = <<"nack">>

\* C5 as amended: such a message is acknowledged if the stale check, which
\* runs first, finds it stale, and negatively acknowledged otherwise; in
\* both cases the callback does nothing else
C5_MismatchNackedUnlessStale ==
  [][ \A w \in Workers :
        (Delivery(w) /\ AddressedElsewhere(w, cur'[w]))
        => /\ calls'[w] = IF ~WrapperRaises(cur'[w]) /\ IsStale(cur'[w].body, now)
                          THEN <<"ack">>
                          ELSE <<"nack">>
           /\ pc'[w] = "listening"
           /\ store' = store
           /\ executed' = executed
    ]_vars

\* a well-formed message for another worker, not stale, was nacked
C5_Witness ==
  \E w \in Workers :
    /\ Ended(w)
    /\ AddressedElsewhere(w, cur[w])
    /\ calls[w] = <<"nack">>
    /\ ~WrapperRaises(cur[w])

(***************************************************************************)
(* C6: a message that passes the targeted delivery check and whose         *)
(* timestamp is more than 1,200,000 ms before the current time is          *)
(* acknowledged; no lock is acquired, run_job is not called and nothing is *)
(* published.                                                              *)
(***************************************************************************)
C6_StaleIsAcked ==
  [][ \A w \in Workers :
        ( /\ Delivery(w)
          /\ PassesTargetFilter(w, cur'[w])
          /\ ~WrapperRaises(cur'[w])
          /\ "timestamp" \in DOMAIN cur'[w].body
          /\ now - cur'[w].body.timestamp.val > StaleBudgetMs )
        => /\ calls'[w] = <<"ack">>
           /\ reports'[w] = <<>>
           /\ pc'[w] = "listening"
           /\ store' = store
           /\ executed' = executed
    ]_vars

\* an untargeted message older than the budget was dropped
C6_Witness ==
  \E w \in Workers :
    /\ Ended(w)
    /\ cur[w].target = ""
    /\ cur[w].json = "object"
    /\ IsDescriptor(cur[w].body)
    /\ calls[w] = <<"ack">>
    /\ reports[w] = <<>>

(***************************************************************************)
(* C7: a message for a production whose lock another handler holds: the    *)
(* handler observes contention, acknowledges, publishes nothing, does not  *)
(* call run_job and reports no failure, in either worker mode.             *)
(***************************************************************************)
C7_ContentionSkips ==
  /\ [][ \A w \in Workers :
           (AcquireAttempt(w) /\ BlobOf(w) \in store)
           => /\ calls'[w] = <<"contention", "ack">>
              /\ reports'[w] = <<>>
              /\ executed' = executed
              /\ exitCode'[w] = exitCode[w]
       ]_vars
  /\ [](\A w \in Workers :
          Has(calls[w], "contention")
          => /\ Acks(w) = <<"ack">>
             /\ ~Has(calls[w], "run_job")
             /\ ~Has(calls[w], "report")
             /\ reports[w] = <<>>
             /\ exc[w] = ""
             /\ exitCode[w] # 1)

\* a single_task worker skipped a job another worker is running, and
\* goes on listening
C7_Witness ==
  \E w1 \in Workers : \E w2 \in Workers \ {w1} :
    /\ pc[w1] = "run_job"
    /\ worker_mode(modeEnv[w2]) = "single_task"
    /\ calls[w2] = <<"contention", "ack">>
    /\ pc[w2] = "listening"
    /\ exitCode[w2] = -1
    /\ BlobOf(w1) = BlobOf(w2)

(***************************************************************************)
(* C8: a lock object is deleted only by the handler invocation that        *)
(* created it; a handler that observed contention, or never reached the    *)
(* acquire, deletes nothing.                                               *)
(***************************************************************************)
C8_OnlyCreatorDeletes ==
  [][ \A k \in Keys :
        (k \in store /\ k \notin store')
        => \E w \in Workers :
             /\ pc[w] = "finally"
             /\ Has(calls[w], "acquire")
             /\ BlobOf(w) = k
             /\ lockCreator[k] = w
             /\ Has(calls'[w], "release")
    ]_vars

\* a handler that observed contention has returned and the lock of the
\* other handler is still there
C8_Witness ==
  \E w \in Workers :
    /\ calls[w] = <<"contention", "ack">>
    /\ pc[w] = "listening"
    /\ BlobOf(w) \in store
    /\ lockCreator[BlobOf(w)] # w

(***************************************************************************)
(* C9: when run_job raises, the handler publishes a FAILED report with the *)
(* descriptor's productionId and the exception's message as error, and     *)
(* acknowledges the message; it never negatively acknowledges it.          *)
(***************************************************************************)
C9_FailureReportedAndAcked ==
  \A w \in Workers :
    (Has(calls[w], "raised") /\ IsDescriptor(cur[w].body))
    => /\ Len(reports[w]) = 1
       /\ reports[w][1].data.productionId = cur[w].body.productionId
       /\ reports[w][1].data.status = "FAILED"
       /\ reports[w][1].data.error = exc[w]
       /\ exc[w] \in JobErrors
       /\ Acks(w) = <<"ack">>

\* run_job raised in a loop-mode worker, which has returned to listening
C9_Witness ==
  \E w \in Workers :
    /\ Has(calls[w], "raised")
    /\ IsDescriptor(cur[w].body)
    /\ pc[w] = "listening"
    /\ Has(calls[w], "release")
    /\ Len(reports[w]) = 1

(***************************************************************************)
(* C10: when run_job returns (path, metadata), the report has the          *)
(* descriptor's productionId, status COMPLETED, outputKey = outputs[0],    *)
(* error null, duration and orientation of the metadata; the message is    *)
(* acknowledged.                                                           *)
(***************************************************************************)
C10_SuccessReport ==
  \A w \in Workers :
    (Has(calls[w], "returned") /\ IsDescriptor(cur[w].body))
    => /\ Len(reports[w]) = 1
       /\ reports[w][1].data =
            [ productionId |-> cur[w].body.productionId,
              status |-> "COMPLETED",
              outputKey |-> cur[w].body.outputs[1],
              error |-> NullError,
              duration |-> metadata[w].duration,
              orientation |-> metadata[w].orientation ]
       /\ Acks(w) = <<"ack">>

\* run_job returned 12.5 s of portrait video and the report went out
C10_Witness ==
  \E w \in Workers :
    /\ Has(calls[w], "returned")
    /\ IsDescriptor(cur[w].body)
    /\ metadata[w] = [duration |-> 125, orientation |-> "portrait"]
    /\ Len(reports[w]) = 1
    /\ reports[w][1].published

(***************************************************************************)
(* More vocabulary: what a delivery step is given                          *)
(***************************************************************************)
\* the body of m is a JSON object without productionId or without bucket
LacksKey(m) ==
  /\ m.json = "object"
  /\ ("productionId" \notin DOMAIN m.body \/ "bucket" \notin DOMAIN m.body)

\* the key whose lookup raises first (productionId is read before bucket)
FirstMissingKey(m) ==
  IF "productionId" \notin DOMAIN m.body THEN "productionId" ELSE "bucket"

\* m is not valid JSON
InvalidJson(m) == m.json = "invalid"

\* m is found stale at the current time by the arithmetic of lines 259-265
StaleNow(m) ==
  /\ m.json = "object"
  /\ "timestamp" \in DOMAIN m.body
  /\ m.body.timestamp.type = "number"
  /\ now - m.body.timestamp.val > StaleBudgetMs

\* m gets as far as the parsing of the payload in process_message
ReachesParse(w, m) ==
  /\ ~WrapperRaises(m)
  /\ ~StaleNow(m)
  /\ PassesTargetFilter(w, m)

HandlerDone(w) ==
  /\ deliveries[w] > 0
  /\ \/ pc[w] \in {"listening", "finally"}
     \/ Has(calls[w], "exit")

\* the wrapper could not parse m: json.loads or the age arithmetic raised
ParseFailed(m) ==
  \/ m.json \in {"invalid", "non_object"}
  \/ /\ "timestamp" \in DOMAIN m.body
     /\ m.body.timestamp.type # "number"

\* m names a target that some identity w may resolve differs from
MayMismatch(w, m) ==
  m.target # "" /\ \E id \in IdentitiesOf(w) : m.target # id

(***************************************************************************)
(* C12: a handler that has run to its end has negatively acknowledged the  *)
(* message only if the payload could not be parsed or target_vm names      *)
(* another worker; every other outcome (stale, contention, run_job         *)
(* returned, run_job or the acquire raised, the publication failed) ended  *)
(* with a positive acknowledgement.                                        *)
(***************************************************************************)
C12_NackOnlyOnParseOrTarget ==
  \A w \in Workers :
    HandlerDone(w)
    => /\ Acks(w) \in {<<"ack">>, <<"nack">>}
       /\ Acks(w) = <<"nack">>
          => /\ ParseFailed(cur[w]) \/ MayMismatch(w, cur[w])
             /\ calls[w] = <<"nack">>
       /\ ( \/ Has(calls[w], "contention")
            \/ Has(calls[w], "returned")
            \/ Has(calls[w], "raised")
            \/ Has(calls[w], "acquire_error")
            \/ Has(calls[w], "report") )
          => Acks(w) = <<"ack">>
       /\ (Len(reports[w]) = 1 /\ ~reports[w][1].published)
          => Acks(w) = <<"ack">>

\* the publication of a FAILED report failed and the message was
\* acknowledged all the same
C12_Witness ==
  \E w \in Workers :
    /\ HandlerDone(w)
    /\ Has(calls[w], "raised")
    /\ Len(reports[w]) = 1
    /\ ~reports[w][1].published
    /\ Acks(w) = <<"ack">>

(***************************************************************************)
(* C13: every delivery is acknowledged or negatively acknowledged exactly  *)
(* once: never both, never twice, and once the handler has returned or the *)
(* process has exited the delivered message has one of the two.            *)
(***************************************************************************)
C13_ExactlyOneDisposition ==
  \A w \in Workers :
    /\ Len(Acks(w)) <= 1
    /\ Ended(w) => Len(Acks(w)) = 1

IsReport(c) == c = "report"

\* the calls of report_completion the current (or last) callback of w made
ReportCalls(w) == SelectSeq(calls[w], IsReport)

(***************************************************************************)
(* C14: an attempt in which run_job was called has made, when it is over,  *)
(* exactly one call of report_completion, COMPLETED or FAILED and never    *)
(* both; an attempt rejected by a filter or skipped on contention has made *)
(* none.                                                                   *)
(***************************************************************************)
C14_OneReportPerExecution ==
  \A w \in Workers :
    /\ (Ended(w) /\ Has(calls[w], "run_job"))
       => /\ Len(ReportCalls(w)) = 1
          /\ Len(reports[w]) <= 1
    /\ ~(Has(calls[w], "returned") /\ Has(calls[w], "raised"))
    /\ ( \/ Has(calls[w], "contention")
         \/ calls[w] = <<"nack">>
         \/ calls[w] = <<"ack">> )
       => /\ ReportCalls(w) = <<>>
          /\ reports[w] = <<>>

\* what holds of the handler alone: once run_job has returned or raised,
\* report_completion is called once, with the status of that outcome
C14_OneReportWhenRunJobEnds ==
  \A w \in Workers :
    /\ (Has(calls[w], "returned") \/ Has(calls[w], "raised"))
       => /\ Len(ReportCalls(w)) = 1
          /\ Len(reports[w]) = IF cur[w].body.outputs = <<>> THEN 0 ELSE 1
          /\ Len(reports[w]) = 1
             => reports[w][1].data.status =
                  IF Has(calls[w], "returned") THEN "COMPLETED" ELSE "FAILED"
    /\ ~(Has(calls[w], "returned") /\ Has(calls[w], "raised"))

(***************************************************************************)
(* C15: when the publication of the report fails, it is not tried again    *)
(* and nothing is raised into the handler: the message is acknowledged as  *)
(* it would have been, the exception the handler recorded is that of the   *)
(* job (none on success), and a single_task process exits with the status  *)
(* of the job, 0 after run_job returned and 1 otherwise.                   *)
(***************************************************************************)
C15_PublishFailureIsSwallowed ==
  \A w \in Workers :
    (reports[w] # <<>> /\ ~reports[w][1].published)
    => /\ Len(reports[w]) = 1
       /\ Len(ReportCalls(w)) = 1
       /\ Acks(w) = <<"ack">>
       /\ Has(calls[w], "returned")
          => /\ exc[w] = ""
             /\ reports[w][1].data.status = "COMPLETED"
       /\ Has(calls[w], "raised") => exc[w] \in JobErrors
       /\ reports[w][1].data.status = "FAILED"
          => reports[w][1].data.error = exc[w]
       /\ Has(calls[w], "exit")
          => exitCode[w] = IF Has(calls[w], "returned") THEN 0 ELSE 1
       /\ ~Has(calls[w], "exit")
          => (exitCode[w] = -1 \/ pc[w] = "exited")

\* the COMPLETED report of a single_task worker could not be published;
\* the message is acknowledged and the process has exited with 0
C15_Witness ==
  \E w \in Workers :
    /\ Has(calls[w], "returned")
    /\ reports[w] # <<>>
    /\ ~reports[w][1].published
    /\ Acks(w) = <<"ack">>
    /\ Has(calls[w], "exit")
    /\ exitCode[w] = 0

\* the handler of w runs in single_task mode (WORKER_MODE unset counts)
SingleTask(w) == modeEnv[w] \in {"", "single_task"}

\* run_job has returned or raised in the current (or last) callback of w
FullyProcessed(w) == Has(calls[w], "returned") \/ Has(calls[w], "raised")

\* the name of w's subscription carries the marker of a temporary one
Ephemeral(w) == SubscriptionId[w][1] = "sub-collab-"

TimeoutTerminated(w) ==
  /\ pc[w] = "exited"
  /\ cancelled[w]
  /\ ~Has(calls[w], "exit")

\* what the callback of w was at when it stopped: a message delivered and
\* not acknowledged, the lock held, run_job running
Processing(w) ==
  /\ deliveries[w] > 0
  /\ Has(calls[w], "run_job")
  /\ Acks(w) = <<>>
  /\ lockPath[w] # NoPath

(***************************************************************************)
(* C17: the listen timeout ends the process only when it is idle, never    *)
(* while a delivered message is being processed (not yet acknowledged,     *)
(* lock held, run_job running).                                            *)
(***************************************************************************)
C17_TimeoutOnlyWhenIdle ==
  \A w \in Workers : TimeoutTerminated(w) => ~Processing(w)

\* the handler of a single_task process ended it after run_job returned
JobSucceeded(w) ==
  SingleTask(w) /\ Has(calls[w], "returned") /\ Has(calls[w], "exit")

\* the handler of a single_task process ended it from its except block
JobFailed(w) ==
  SingleTask(w) /\ exc[w] # "" /\ Has(calls[w], "exit")

\* the listen timeout ended the process and no delivered message was left
\* without its acknowledgement
IdleTimeout(w) ==
  /\ TimeoutTerminated(w)
  /\ deliveries[w] > 0 => Len(Acks(w)) = 1

\* --project_id or --subscription_id is missing
ConfigMissing(w) ==
  args[w].project_id = "" \/ args[w].subscription_id = <<>>

(***************************************************************************)
(* C18: a process that has ended has exit status 0 exactly when its job    *)
(* succeeded (single_task) or the listen timeout elapsed with no work, and *)
(* 1 exactly when its job failed (single_task) or the project or           *)
(* subscription identifier was missing.                                    *)
(***************************************************************************)
C18_ExitStatus ==
  \A w \in Workers :
    pc[w] = "exited"
    => /\ exitCode[w] \in {0, 1}
       /\ exitCode[w] = 0 <=> (JobSucceeded(w) \/ IdleTimeout(w))
       /\ exitCode[w] = 1 <=> (JobFailed(w) \/ ConfigMissing(w))

\* what holds of the exit paths: status 0 also when the timeout ends the
\* process in the middle of a job
C18_ExitStatusByPath ==
  \A w \in Workers :
    /\ pc[w] = "exited" <=> exitCode[w] \in {0, 1}
    /\ pc[w] = "exited"
       => /\ exitCode[w] = 0 <=> (JobSucceeded(w) \/ TimeoutTerminated(w))
          /\ exitCode[w] = 1 <=> (JobFailed(w) \/ ConfigMissing(w))

(***************************************************************************)
(* C19: a process started without project or subscription identifier goes  *)
(* from starting straight to its end with status 1: it never listens, so   *)
(* no message is handed to it, acknowledged or negatively acknowledged, it *)
(* creates no lock object, publishes no report, and touches no             *)
(* subscription.                                                           *)
(***************************************************************************)
C19_SetupFailureIsFatal ==
  \A w \in Workers :
    ConfigMissing(w)
    => /\ pc[w] \in {"starting", "exited"}
       /\ exitCode[w] = IF pc[w] = "exited" THEN 1 ELSE -1
       /\ deliveries[w] = 0
       /\ cur[w] = NoMsg
       /\ calls[w] = <<>>
       /\ reports[w] = <<>>
       /\ lockPath[w] = NoPath
       /\ \A k \in Keys : lockCreator[k] # w
       /\ ~cancelled[w]
       /\ ~subDeleted[w]

\* a process without subscription identifier has ended with status 1 while
\* the other worker is running a job
C19_Witness ==
  \E w1 \in Workers : \E w2 \in Workers \ {w1} :
    /\ args[w1].subscription_id = <<>>
    /\ pc[w1] = "exited"
    /\ exitCode[w1] = 1
    /\ pc[w2] = "run_job"

\* the name of w's subscription contains 'sub-collab-'
HasMarker(w) ==
  \E i \in DOMAIN args[w].subscription_id :
    args[w].subscription_id[i] = "sub-collab-"

\* cleanup_subscription was called in the process of w: by the handler
\* after the job, or by the main thread on the timeout of a process whose
\* WORKER_MODE is single_task
CleanupCalled(w) ==
  \/ Has(calls[w], "cleanup")
  \/ pc[w] = "exited" /\ cancelled[w] /\ modeEnv[w] = "single_task"

(***************************************************************************)
(* C20: the subscription is deleted only if its name contains              *)
(* 'sub-collab-': after each call of cleanup_subscription (job succeeded,  *)
(* job failed, timeout in single_task mode) a subscription with such a     *)
(* name is gone and any other is still in place; without a call none is    *)
(* deleted.                                                                *)
(***************************************************************************)
C20_OnlyEphemeralDeleted ==
  \A w \in Workers :
    /\ subDeleted[w] => HasMarker(w) /\ CleanupCalled(w)
    /\ CleanupCalled(w) => subDeleted[w] = HasMarker(w)

\* after a failed job the subscription render-jobs is in place, while the
\* other worker's sub-collab-w1 was deleted on its timeout
C20_Witness ==
  \E w1 \in Workers : \E w2 \in Workers \ {w1} :
    /\ ~HasMarker(w1)
    /\ Has(calls[w1], "raised")
    /\ Has(calls[w1], "cleanup")
    /\ ~subDeleted[w1]
    /\ HasMarker(w2)
    /\ TimeoutTerminated(w2)
    /\ subDeleted[w2]

\* position of the first x in seq, 0 if there is none
Pos(seq, x) ==
  IF Has(seq, x)
  THEN CHOOSE i \in 1..Len(seq) : seq[i] = x /\ \A j \in 1..(i - 1) : seq[j] # x
  ELSE 0

\* the handler of w has processed a job and is through with all it does
\* (the finally block included), the delete of the lock not failing
ProcessedToTheEnd(w) ==
  /\ FullyProcessed(w)
  /\ pc[w] = "listening" \/ Has(calls[w], "exit")
  /\ ~Has(calls[w], "release_failed")

(***************************************************************************)
(* C21: for a processed job the handler's steps come in the order lock     *)
(* acquired, run_job called, report published, message acknowledged, lock  *)
(* released, subscription cleaned up, and only then exit (single_task) or  *)
(* return (loop): the lock is released before the subscription cleanup and *)
(* before the process ends.                                                *)
(***************************************************************************)
C21_StepOrder ==
  \A w \in Workers :
    ProcessedToTheEnd(w)
    => LET c == calls[w]
       IN /\ 0 < Pos(c, "acquire")
          /\ Pos(c, "acquire") < Pos(c, "run_job")
          /\ Pos(c, "run_job") < Pos(c, "report")
          /\ Pos(c, "report") < Pos(c, "ack")
          /\ Pos(c, "ack") < Pos(c, "release")
          /\ Pos(c, "release") < Pos(c, "cleanup")
          /\ Has(c, "exit") => Pos(c, "cleanup") < Pos(c, "exit")

\* the order the handler does keep: acquire, run_job, report, ack, cleanup,
\* then exit without a release (single_task) or the release (loop)
C21_OrderInTheCode ==
  \A w \in Workers :
    ProcessedToTheEnd(w)
    => \E r \in {"returned", "raised"} :
         calls[w] = <<"acquire", "run_job", r, "report", "ack", "cleanup">>
                      \o (IF SingleTask(w) THEN <<"exit">> ELSE <<"release">>)

\* the lock object k was created by a process that has ended without
\* deleting it
Orphan(k) ==
  /\ k \in store
  /\ lockCreator[k] # ""
  /\ pc[lockCreator[k]] = "exited"

(***************************************************************************)
(* C22: the lock object of a worker that died between acquire and release  *)
(* stays for ever, created by that worker; every later acquire for that    *)
(* job, by any worker, is answered with contention: acknowledged, run_job  *)
(* not called, nothing published; the job is never executed again.         *)
(***************************************************************************)
C22_OrphanLockBlocksForever ==
  [][ /\ \A k \in Keys :
           Orphan(k) => /\ k \in store'
                        /\ lockCreator'[k] = lockCreator[k]
                        /\ pc'[lockCreator[k]] = "exited"
      /\ \A w \in Workers :
           (AcquireAttempt(w) /\ Orphan(BlobOf(w)))
           => /\ calls'[w] = <<"contention", "ack">>
              /\ reports'[w] = <<>>
              /\ executed' = executed
              /\ pc'[w] = "finally"
      /\ \A w \in Workers : EntersRunJob(w) => ~Orphan(BlobOf(w))
    ]_vars

\* a worker was ended by the timeout inside run_job; the other worker, given
\* the same job afterwards, has skipped it and is listening again
C22_Witness ==
  \E w1 \in Workers : \E w2 \in Workers \ {w1} :
    /\ TimeoutTerminated(w1)
    /\ Processing(w1)
    /\ Orphan(BlobOf(w1))
    /\ lockCreator[BlobOf(w1)] = w1
    /\ pc[w2] = "listening"
    /\ calls[w2] = <<"contention", "ack">>
    /\ reports[w2] = <<>>
    /\ BlobOf(w2) = BlobOf(w1)

\* some lock object of the production of w's message exists, in any bucket
LockOfProductionExists(w) ==
  \E k \in store : k[2] = <<"locks/", cur[w].body.productionId, ".lock">>

\* the object locks/{productionId}.lock in the bucket w's message names
ExpectedLock(w) ==
  <<cur[w].body.bucket, <<"locks/", cur[w].body.productionId, ".lock">>>>

(***************************************************************************)
(* C23: the lock is keyed by the production id alone: an acquire for a     *)
(* production id of which a lock object exists observes contention,        *)
(* whatever the other fields of the message, the bucket included.          *)
(***************************************************************************)
C23_KeyedByProductionAlone ==
  [][ \A w \in Workers :
        (AcquireAttempt(w) /\ LockOfProductionExists(w))
        => Has(calls'[w], "contention")
    ]_vars

\* C23 as amended: the lock object is locks/{productionId}.lock inside the
\* bucket the message names; an acquire observes contention exactly when
\* that object exists, whatever the timestamp and the target of the
\* message, and creates that object otherwise
C23_KeyedByBucketAndProduction ==
  [][ \A w \in Workers :
        AcquireAttempt(w)
        => /\ Has(calls'[w], "contention") <=> ExpectedLock(w) \in store
           /\ Has(calls'[w], "acquire") <=> ExpectedLock(w) \notin store
           /\ store' = store \cup {ExpectedLock(w)}
    ]_vars

\* both workers are inside run_job for production P1, one for bucket b1 and
\* one for bucket b2, each under its own lock object
C23_Witness ==
  \E w1 \in Workers : \E w2 \in Workers \ {w1} :
    /\ pc[w1] = "run_job"
    /\ pc[w2] = "run_job"
    /\ cur[w1].body.productionId = cur[w2].body.productionId
    /\ cur[w1].body.bucket # cur[w2].body.bucket
    /\ ExpectedLock(w1) \in store
    /\ ExpectedLock(w2) \in store

(***************************************************************************)
(* C24: a message the wrapper can parse is dropped as stale exactly when   *)
(* it has a timestamp and now - timestamp > 1,200,000 ms; at an age equal  *)
(* to the budget, and without a timestamp field (at any clock value), it   *)
(* passes on to process_message.                                           *)
(***************************************************************************)
C24_StaleExactlyBeyondBudget ==
  [][ \A w \in Workers :
        (Delivery(w) /\ ~ParseFailed(cur'[w]))
        => LET data == cur'[w].body
               dropped == calls'[w] = <<"ack">> /\ pc'[w] = "listening"
           IN /\ dropped <=> /\ "timestamp" \in DOMAIN data
                             /\ now - data.timestamp.val > 1200000
              /\ "timestamp" \notin DOMAIN data => ~dropped
              /\ ("timestamp" \in DOMAIN data /\ now - data.timestamp.val = 1200000)
                 => ~dropped
              /\ (~dropped /\ PassesTargetFilter(w, cur'[w]) /\ IsDescriptor(data))
                 => pc'[w] = "acquire"
    ]_vars

\* a message exactly 1,200,000 ms old is being processed
C24_Witness ==
  \E w \in Workers :
    /\ pc[w] = "run_job"
    /\ tick = 1
    /\ "timestamp" \in DOMAIN cur[w].body
    /\ now - cur[w].body.timestamp.val = StaleBudgetMs

\* values of WORKER_ID the resolution is checked for ("" stands for unset)
WorkerIdEnvValues == {"", "unknown", "vm1", "vm9"}

\* the identities the resolution is to yield for w, by the rule of the
\* claim: WORKER_ID if set and not "unknown", else the answer of the
\* metadata server or, the query failing, "unknown"
ExpectedIdentities(w) ==
  IF WorkerIdEnv[w] \notin {"", "unknown"}
  THEN {WorkerIdEnv[w]}
  ELSE {InstanceName[w], "unknown"}

(***************************************************************************)
(* C25: the resolved identity is WORKER_ID when that is set and not        *)
(* 'unknown', else what the metadata query yields, which is 'unknown' when *)
(* the query fails; nothing is raised, and a message without target_vm     *)
(* that is parsed and not stale is never turned away, whatever the         *)
(* resolution yields: only a message naming a target other than a          *)
(* resolvable identity is.                                                 *)
(***************************************************************************)
C25_IdentityResolution ==
  /\ [](\A w \in Workers :
          /\ get_gcp_instance_name(w) = {InstanceName[w], "unknown"}
          /\ \A env \in WorkerIdEnvValues : \A n \in get_gcp_instance_name(w) :
               ResolveIdentity(env, n) =
                 IF env \notin {"", "unknown"} THEN env ELSE n)
  /\ [][ \A w \in Workers :
           /\ ( /\ Delivery(w)
                /\ cur'[w].target = ""
                /\ ~ParseFailed(cur'[w])
                /\ ~StaleNow(cur'[w]) )
              => /\ ~Has(calls'[w], "nack")
                 /\ IsDescriptor(cur'[w].body) => pc'[w] = "acquire"
           /\ ( /\ Delivery(w)
                /\ ~ParseFailed(cur'[w])
                /\ Has(calls'[w], "nack") )
              => \E id \in ExpectedIdentities(w) :
                   cur'[w].target # "" /\ cur'[w].target # id
       ]_vars

\* the metadata query of the worker without WORKER_ID failed: resolved to
\* "unknown", it turned away a well-formed message addressed to its own
\* instance name, without raising
C25_Witness ==
  \E w \in Workers :
    /\ WorkerIdEnv[w] = ""
    /\ cur[w].target = InstanceName[w]
    /\ ~ParseFailed(cur[w])
    /\ calls[w] = <<"nack">>
    /\ pc[w] = "listening"
    /\ exc[w] = ""

\* the lock objects the callbacks of w have created and not yet given up:
\* that of the running callback and that of the earlier one whose finally
\* block is pending
HeldLocks(w) ==
  (IF pc[w] \in {"run_job", "finally"} /\ lockPath[w] # NoPath
   THEN {Blob(cur[w].body.bucket, lockPath[w])} ELSE {})
  \cup
  (IF tail[w].pending /\ tail[w].lock_path # NoPath
   THEN {Blob(tail[w].bucket_name, tail[w].lock_path)} ELSE {})

C28_ExecutorOnlyUnderOwnLock ==
  \A w \in Workers :
    /\ pc[w] = "run_job"
       => /\ ExpectedLock(w) \in store
          /\ lockCreator[ExpectedLock(w)] = w
          /\ lockPath[w] = <<"locks/", cur[w].body.productionId, ".lock">>
          /\ calls[w] = <<"acquire", "run_job">>
    /\ Has(calls[w], "run_job")
       => /\ 0 < Pos(calls[w], "acquire")
          /\ Pos(calls[w], "acquire") < Pos(calls[w], "run_job")
          /\ ~Has(calls[w], "contention")
          /\ ~Has(calls[w], "acquire_error")
    /\ (Has(calls[w], "contention") \/ Has(calls[w], "acquire_error"))
       => /\ pc[w] # "run_job"
          /\ lockPath[w] = NoPath

\* a worker is inside run_job for production P2 under the lock it created,
\* after the other worker's acquire for the same job failed
C28_Witness ==
  \E w1 \in Workers : \E w2 \in Workers \ {w1} :
    /\ pc[w1] = "run_job"
    /\ cur[w1].body.productionId = "P2"
    /\ lockCreator[ExpectedLock(w1)] = w1
    /\ Has(calls[w2], "acquire_error")
    /\ cur[w2].body = cur[w1].body

C30_UnsetModeIsSingleTaskEverywhere ==
  \A w \in Workers :
    modeEnv[w] = ""
    => /\ FullyProcessed(w) => Has(calls[w], "exit") /\ pc[w] = "exited"
       /\ (cancelled[w] /\ pc[w] = "exited" /\ deliveries[w] = 0)
          => /\ exitCode[w] = 0
             /\ HasMarker(w) => subDeleted[w]

\* what the two places do with WORKER_MODE unset: the handler ends the
\* process as in single_task mode, the timeout path takes the loop branch
\* and never calls cleanup_subscription
C30_UnsetModeSplits ==
  \A w \in Workers :
    modeEnv[w] = ""
    => /\ FullyProcessed(w) => Has(calls[w], "exit") /\ pc[w] = "exited"
       /\ (cancelled[w] /\ deliveries[w] = 0) => ~subDeleted[w]
       /\ (cancelled[w] /\ pc[w] = "exited" /\ deliveries[w] = 0)
          => exitCode[w] = 0

====
